---------------------------- MODULE Spec2Model ----------------------------
(***************************************************************************)
(* A model of rlox's front end: the lexical scanner (src/src/scanner.rs),  *)
(* the token cursor (src/src/marcher.rs) and the recursive-descent parser  *)
(* (src/src/parser.rs).                                                    *)
(*                                                                         *)
(* Source text is a sequence of one-character strings (the bytes of an     *)
(* ASCII input).  Offsets are 0-based as in the Rust code; element i of    *)
(* the Rust vector is source[i + 1] here.                                  *)
(***************************************************************************)
EXTENDS Integers, Sequences, FiniteSets, TLC

(***************************************************************************)
(* Bounds of the model.                                                    *)
(***************************************************************************)
\* longest input drawn from the whole alphabet
MaxLen == 3
\* longest input drawn from digits and dots
MaxNumberLen == 5
\* longest input drawn from the comment characters
MaxCommentLen == 9
\* longest token sequence handed to the parser
MaxTokens == 3
\* most operators in a chain of operands and binary operators
MaxOps == 3
\* longest token sequence of operands, ? and : after a condition and its ?
MaxTernaryLen == 7
\* longest token sequence after an opening parenthesis
MaxGroupLen == 6
\* longest sequence a cursor is made over
MaxValues == 3
\* most prefix operators before one operand
MaxPrefixes == 4
\* most calls made on one cursor
MaxCalls == 3

\* usize::MAX, the cursor's position before the first element; the width
\* is cut to the 31 bits of the checker's integers
UsizeMax == 2147483647

\* no tree
NoExpr == [node |-> "None"]

(***************************************************************************)
(* Characters.                                                             *)
(***************************************************************************)
Digits == {"0", "1", "2", "3", "4", "5", "6", "7", "8", "9"}

LowerLetters ==
    {"a", "b", "c", "d", "e", "f", "g", "h", "i", "j", "k", "l", "m",
     "n", "o", "p", "q", "r", "s", "t", "u", "v", "w", "x", "y", "z"}

UpperLetters ==
    {"A", "B", "C", "D", "E", "F", "G", "H", "I", "J", "K", "L", "M",
     "N", "O", "P", "Q", "R", "S", "T", "U", "V", "W", "X", "Y", "Z"}

\* char::is_digit(10)
is_digit(c) == c \in Digits

\* char::is_ascii_alphabetic
is_ascii_alphabetic(c) == c \in LowerLetters \cup UpperLetters

\* char::is_alphanumeric, on the ASCII bytes the model draws
is_alphanumeric(c) == c \in LowerLetters \cup UpperLetters \cup Digits

\* Option::None of a peeked or advanced byte
None == ""

(***************************************************************************)
(* Scanner::default: the keyword table and the dispatch table.             *)
(***************************************************************************)
KeywordTexts ==
    {<<"a", "n", "d">>, <<"c", "l", "a", "s", "s">>,
     <<"e", "l", "s", "e">>, <<"f", "a", "l", "s", "e">>,
     <<"f", "u", "n">>, <<"f", "o", "r">>, <<"i", "f">>,
     <<"n", "i", "l">>, <<"o", "r">>, <<"p", "r", "i", "n", "t">>,
     <<"r", "e", "t", "u", "r", "n">>, <<"s", "u", "p", "e", "r">>,
     <<"t", "h", "i", "s">>, <<"t", "r", "u", "e">>,
     <<"v", "a", "r">>, <<"w", "h", "i", "l", "e">>,
     <<"e", "o", "f">>}

KeywordKind(w) ==
    CASE w = <<"a", "n", "d">> -> "And"
      [] w = <<"c", "l", "a", "s", "s">> -> "Class"
      [] w = <<"e", "l", "s", "e">> -> "Else"
      [] w = <<"f", "a", "l", "s", "e">> -> "False"
      [] w = <<"f", "u", "n">> -> "Fun"
      [] w = <<"f", "o", "r">> -> "For"
      [] w = <<"i", "f">> -> "If"
      [] w = <<"n", "i", "l">> -> "Nil"
      [] w = <<"o", "r">> -> "Or"
      [] w = <<"p", "r", "i", "n", "t">> -> "Print"
      [] w = <<"r", "e", "t", "u", "r", "n">> -> "Return"
      [] w = <<"s", "u", "p", "e", "r">> -> "Super"
      [] w = <<"t", "h", "i", "s">> -> "This"
      [] w = <<"t", "r", "u", "e">> -> "True"
      [] w = <<"v", "a", "r">> -> "Var"
      [] w = <<"w", "h", "i", "l", "e">> -> "While"
      [] w = <<"e", "o", "f">> -> "Eof"

\* the table with the entry for "nil" left out
keywords_without_nil ==
    [w \in KeywordTexts \ {<<"n", "i", "l">>} |-> KeywordKind(w)]

keywords == [w \in KeywordTexts |-> KeywordKind(w)]

\* the handlers that only add one token of a fixed kind
SingleCharKind ==
    [c \in {"{", "}", "(", ")", ",", ".", "-", "+", ";", "*", "?", ":"} |->
        CASE c = "{" -> "LeftBrace"
          [] c = "}" -> "RightBrace"
          [] c = "(" -> "LeftParen"
          [] c = ")" -> "RightParen"
          [] c = "," -> "Comma"
          [] c = "." -> "Dot"
          [] c = "-" -> "Minus"
          [] c = "+" -> "Plus"
          [] c = ";" -> "Semicolon"
          [] c = "*" -> "Star"
          [] c = "?" -> "Question"
          [] c = ":" -> "Colon"]

\* bang, equal, greater, lesser: <<kind without '=', kind with '='>>
OperatorKind ==
    [c \in {"!", "=", ">", "<"} |->
        CASE c = "!" -> <<"Bang", "BangEqual">>
          [] c = "=" -> <<"Equal", "EqualEqual">>
          [] c = ">" -> <<"Greater", "GreaterEqual">>
          [] c = "<" -> <<"Less", "LessEqual">>]

\* DO_NOTHING
BlankChars == {" ", "\r", "\t"}

\* the keys of lex_func
lex_func ==
    [c \in DOMAIN SingleCharKind \cup DOMAIN OperatorKind \cup BlankChars
            \cup {"\"", "\n", "/"} |->
        CASE c \in DOMAIN SingleCharKind -> "single"
          [] c \in DOMAIN OperatorKind -> "operator"
          [] c \in BlankChars -> "DO_NOTHING"
          [] c = "\n" -> "newline"
          [] c = "\"" -> "string"
          [] c = "/" -> "slash"]

(***************************************************************************)
(* Inputs.                                                                 *)
(***************************************************************************)
Alphabet == {"a", "1", ".", "\"", "/", "*", "\n", "~", "+", "=", "!", " ", ","}

NumberChars == {"1", "0", "."}

CommentChars == {"/", "*"}

Str(S, n) == UNION {[1..k -> S] : k \in 0..n}

TestSingleChar ==
    <<"\t", "(", ")", " ", "{", "}", ",", ".", "-", "+", ";", " ", "*", "\n">>

TestNumbers ==
    <<"1", "2", ".", "3", " ", "1", "2", ".", ".", "3">>

TestStrings ==
    <<"\"", "I", "\"", " ", "\"", "w", "a", "i", "t", "e", "d", "\"", " ",
      "v", "a", "r", " ", "\"", "i", "n", "\"", " ", "a", "n", "d", " ",
      "\"", "t", "h", "e", " ", "\n", "c", "i", "n", "e", "m", "a", " ",
      "t", "o", "o", "\n", "\"", ".">>

TestIdentifiers ==
    <<"a", "n", "d", " ", "c", "l", "a", "s", "s", " ", "e", "l", "s", "e",
      " ", "f", "a", "l", "s", "e", " ", "f", "u", "n", " ", "f", "o", "r",
      " ", "i", "f", " ", "n", "i", "l", " ", "o", "r", " ", "p", "r", "i",
      "n", "t", " ", "r", "e", "t", "u", "r", "n", " ", "s", "u", "p", "e",
      "r", " ", "t", "h", "i", "s", " ", "t", "r", "u", "e", " ", "v", "a",
      "r", " ", "w", "h", "i", "l", "e", " ", "e", "o", "f", " ", "t", "e",
      "s", "t", " ", "T", "H", "I", "S", " ", "L", "e", "t">>

TestOperators ==
    <<"\t", "!", " ", ">", "=", " ", "=", "=", "!", "=", " ", "<", " ", "<",
      "=", " ", ">", "\n">>

TestErrors ==
    <<"~", " ", "\"", "t", "e", "s", "t", " ">>

NestedCommentPlus ==
    <<"/", "*", "/", "*", "*", "/", "*", "/", "+">>

\* a number with a trailing '.'
TwelveDot == <<"1", "2", ".">>

\* digits with two '.'s, and a character after them
TwoDotsPlus == <<"1", ".", "1", ".", "1", "+">>

\* the inputs of the scanner's own tests, and single words
Words ==
    KeywordTexts \cup
    {<<"T", "H", "I", "S">>, <<"t", "e", "s", "t">>, <<"L", "e", "t">>,
     <<"n", "i", "l", "s">>, <<"o", "r", "1">>, <<"x", "2", "y">>}

Corpus ==
    {TestSingleChar, TestNumbers, TestStrings, TestIdentifiers,
     TestOperators, TestErrors, NestedCommentPlus, <<"?", ":", "\r">>,
     TwelveDot, TwoDotsPlus}
        \cup Words

Inputs ==
    Str(Alphabet, MaxLen) \cup Str(NumberChars, MaxNumberLen)
        \cup Str(CommentChars, MaxCommentLen) \cup Corpus

(***************************************************************************)
(* State.                                                                  *)
(***************************************************************************)
VARIABLES
    source,     \* Scanner.source
    col,        \* Scanner.col
    line,       \* Scanner.line
    start,      \* Scanner.start
    tokens,     \* Scanner.tokens
    errors,     \* Scanner.errors
    pc,         \* "scanning", "done" (scan_tokens returned), "panicked"
    panic,      \* the place of the panic that aborted the call, or ""
    returned,   \* what the entry point handed to its caller
    reported,   \* the diagnostics report_errors printed
    input,      \* the tokens handed to parse
    curr,       \* Marcher.curr of the parser's cursor
    expr,       \* the tree parse returned
    parse_pc,   \* "ready", "returned", "panicked", or "idle"
    first_scan, \* the tokens of a finished scan whose lexemes are rescanned
    last_call,  \* the last cursor call: its name, argument, the position
                \* before it and what it returned
    calls,      \* the number of cursor calls made so far
    printed     \* what formatting the parsed tree with {} wrote, or <<>>

scanner_vars ==
    <<source, col, line, start, tokens, errors, pc, panic, returned, reported>>

parser_vars == <<input, curr, expr, parse_pc>>

caller_vars == <<first_scan, last_call, calls, printed>>

\* no scan finished yet
NoScan == [taken |-> FALSE, tokens |-> <<>>]

\* no cursor call made yet
NoCall == [op |-> "none"]

\* the Scanner the methods work on
Self ==
    [col |-> col, line |-> line, start |-> start, tokens |-> tokens,
     errors |-> errors, panic |-> ""]

NoLiteral == [kind |-> "None", val |-> <<>>]

(***************************************************************************)
(* Scanner's byte-level cursor.                                            *)
(***************************************************************************)
\* Vec::get
Get(i) == IF i >= 0 /\ i < Len(source) THEN source[i + 1] ELSE None

\* the slice source[a..b]; Rust panics when a > b or b > len
SliceOk(a, b) == a <= b /\ b <= Len(source)

Slice(a, b) == SubSeq(source, a + 1, b)

peek(s, one_extra) == Get(s.col + (IF one_extra THEN 1 ELSE 0))

advance(s) == [s EXCEPT !.col = s.col + 1]

advance_if_matches(s, expected) == peek(s, FALSE) = expected

advance_if(s, expected) ==
    IF advance_if_matches(s, expected) THEN advance(s) ELSE s

is_end(s) == s.col >= Len(source)

add_error(s, message) ==
    [s EXCEPT !.errors = Append(s.errors,
        [message |-> message, text |-> source, line |-> s.line, col |-> s.col])]

has_errors(s) == Len(s.errors) # 0

\* Literal's Display: the text of the value
LiteralToString(literal) == literal.val

\* add_token_literal, were the token given the length of its text as col
add_token_literal_with_length(s, token_type, literal) ==
    LET lexeme ==
            IF token_type \in {"String", "Number", "Identifier"}
            THEN LiteralToString(literal)
            ELSE Slice(s.start, s.col)
    IN  [s EXCEPT !.tokens = Append(s.tokens,
            [token_type |-> token_type, lexeme |-> lexeme,
             literal |-> literal, line |-> s.line,
             col |-> s.col - s.start])]

add_token_literal(s, token_type, literal) ==
    LET lexeme ==
            IF token_type \in {"String", "Number", "Identifier"}
            THEN LiteralToString(literal)
            ELSE Slice(s.start, s.col)
    IN  [s EXCEPT !.tokens = Append(s.tokens,
            [token_type |-> token_type, lexeme |-> lexeme,
             literal |-> literal, line |-> s.line, col |-> s.col])]

add_token(s, token_type) == add_token_literal(s, token_type, NoLiteral)

(***************************************************************************)
(* str::parse::<f64> and f64's Display, on the texts number() can consume: *)
(* digits with '.' between digit runs.  A value is kept as its shortest    *)
(* decimal text, the one Display prints.                                   *)
(***************************************************************************)
RECURSIVE StripLeadingZeros(_)
StripLeadingZeros(ds) ==
    IF Len(ds) > 1 /\ Head(ds) = "0" THEN StripLeadingZeros(Tail(ds)) ELSE ds

RECURSIVE StripTrailingZeros(_)
StripTrailingZeros(ds) ==
    IF Len(ds) > 0 /\ ds[Len(ds)] = "0"
    THEN StripTrailingZeros(SubSeq(ds, 1, Len(ds) - 1))
    ELSE ds

DotPositions(text) == {i \in 1..Len(text) : text[i] = "."}

\* Err (FALSE) for a text that is no float literal
ParseF64Ok(text) ==
    /\ Cardinality(DotPositions(text)) <= 1
    /\ \E i \in 1..Len(text) : is_digit(text[i])
    /\ \A i \in 1..Len(text) : is_digit(text[i]) \/ text[i] = "."

ParseF64(text) ==
    LET dots == DotPositions(text)
        d == IF dots = {} THEN Len(text) + 1 ELSE CHOOSE i \in dots : TRUE
        int == StripLeadingZeros(
                   IF d = 1 THEN <<"0">> ELSE SubSeq(text, 1, d - 1))
        frac == StripTrailingZeros(SubSeq(text, d + 1, Len(text)))
    IN  IF frac = <<>> THEN int ELSE int \o <<".">> \o frac

(***************************************************************************)
(* The closures handed to advance_until, and advance_until itself.  A      *)
(* closure returns the scanner it left and Ok(true), Ok(false) or Err.     *)
(***************************************************************************)
Ok(s, stop) == [s |-> s, err |-> FALSE, stop |-> stop, message |-> ""]

Err(s, message) == [s |-> s, err |-> TRUE, stop |-> FALSE, message |-> message]

RECURSIVE advance_until(_, _)
RECURSIVE block_comment(_)

until_comment(s, c) ==
    IF c = "\n"
    THEN Ok([s EXCEPT !.line = s.line + 1], TRUE)
    ELSE Ok(s, FALSE)

until_identifier(s, c) == Ok(s, ~is_alphanumeric(c))

\* number's closure, were a '.' taken whatever follows it
until_number_taking_any_dot(s, c) ==
    IF is_digit(c)
    THEN Ok(s, FALSE)
    ELSE IF c = "."
         THEN Ok(s, FALSE)
         ELSE Ok(s, TRUE)

until_number(s, c) ==
    IF is_digit(c)
    THEN Ok(s, FALSE)
    ELSE IF c = "."
         THEN Ok(s, ~is_digit(peek(s, TRUE)))
         ELSE Ok(s, TRUE)

\* the closure of string, after it has counted the line of a newline
until_string_counted(s1, c) ==
    IF peek(s1, TRUE) = None /\ c # "\""
    THEN Err(s1, "Unterminated string.")
    ELSE Ok(advance_if(s1, "\""), advance_if_matches(s1, "\""))

\* string's closure, were the newlines inside a string not counted
until_string_not_counting_lines(s, c) == until_string_counted(s, c)

until_string(s, c) ==
    until_string_counted(
        IF c = "\n" THEN [s EXCEPT !.line = s.line + 1] ELSE s, c)

until_block_comment(s, c) ==
    IF c = "\n"
    THEN Ok([s EXCEPT !.line = s.line + 1], FALSE)
    ELSE IF c = "*" /\ peek(s, TRUE) = "/"
    THEN Ok(advance_if(advance(s), "/"), advance_if_matches(advance(s), "/"))
    ELSE IF c = "/" /\ peek(s, TRUE) = "*"
    THEN Ok(block_comment(advance(advance(s))), FALSE)
    ELSE IF peek(s, FALSE) = None
    THEN Err(s, "Unterminated block comment.")
    ELSE Ok(s, FALSE)

until(kind, s, c) ==
    CASE kind = "comment" -> until_comment(s, c)
      [] kind = "identifier" -> until_identifier(s, c)
      [] kind = "number" -> until_number(s, c)
      [] kind = "string" -> until_string(s, c)
      [] kind = "block_comment" -> until_block_comment(s, c)

\* the loop of advance_until after the closure returned r: the error is
\* passed on, true ends the loop, false advances and goes round again
advance_until_after(r, kind) ==
    IF r.err \/ r.stop THEN r ELSE advance_until(advance(r.s), kind)

advance_until(s, kind) ==
    IF peek(s, FALSE) = None
    THEN Ok(s, TRUE)
    ELSE advance_until_after(until(kind, s, peek(s, FALSE)), kind)

\* block_comment, from the result of its advance_until
block_comment_result(res) ==
    IF res.err THEN add_error(res.s, res.message) ELSE res.s

block_comment(s) == block_comment_result(advance_until(s, "block_comment"))

comment(s) == advance_until(s, "comment").s

\* identifier, once the run is consumed
identifier_token(s1, text) ==
    IF text \in DOMAIN keywords
    THEN add_token(s1, keywords[text])
    ELSE add_token_literal(s1, "Identifier",
             [kind |-> "Identifier", val |-> text])

identifier_run(s1) == identifier_token(s1, Slice(s1.start, s1.col))

identifier(s) == identifier_run(advance_until(s, "identifier").s)

\* number, once the run is consumed
number_token(s1, text) ==
    IF ParseF64Ok(text)
    THEN add_token_literal(s1, "Number",
             [kind |-> "Number", val |-> ParseF64(text)])
    ELSE [s1 EXCEPT !.panic = "number: parse::<f64>().unwrap()"]

number_run(s1) == number_token(s1, Slice(s1.start, s1.col))

number(s) == number_run(advance_until(s, "number").s)

\* string, from the result of its advance_until
string_result(res) ==
    IF res.err
    THEN add_error(res.s, res.message)
    ELSE IF SliceOk(res.s.start + 1, res.s.col - 1)
    THEN add_token_literal(res.s, "String",
             [kind |-> "String",
              val |-> Slice(res.s.start + 1, res.s.col - 1)])
    ELSE [res.s EXCEPT !.panic = "string: slice index starts after its end"]

string(s) == string_result(advance_until(s, "string"))

\* bang, equal, greater, lesser, were the '=' after them never looked at
bang_equal_greater_lesser_alone(s, c) == add_token(s, OperatorKind[c][1])

bang_equal_greater_lesser(s, c) ==
    IF advance_if_matches(s, "=")
    THEN add_token(advance(s), OperatorKind[c][2])
    ELSE add_token(s, OperatorKind[c][1])

slash(s) ==
    IF advance_if_matches(s, "/")
    THEN comment(advance(s))
    ELSE IF advance_if_matches(s, "*")
    THEN block_comment(advance(s))
    ELSE add_token(s, "Slash")

\* scan_lexeme, after c was taken by advance
dispatch(s, c) ==
    IF c \in DOMAIN lex_func
    THEN CASE lex_func[c] = "single" -> add_token(s, SingleCharKind[c])
           [] lex_func[c] = "operator" -> bang_equal_greater_lesser(s, c)
           [] lex_func[c] = "DO_NOTHING" -> s
           [] lex_func[c] = "newline" -> [s EXCEPT !.line = s.line + 1]
           [] lex_func[c] = "string" -> string(s)
           [] lex_func[c] = "slash" -> slash(s)
    ELSE IF is_digit(c) THEN number(s)
    ELSE IF is_ascii_alphabetic(c) THEN identifier(s)
    ELSE add_error(s, "Unexpected character.")

scan_lexeme(s0) == dispatch(advance(s0), peek(s0, FALSE))

(***************************************************************************)
(* The scanner's main loop and the entry point.                            *)
(***************************************************************************)
Init ==
    /\ source \in Inputs
    /\ col = 0
    /\ line = 1
    /\ start = 0
    /\ tokens = <<>>
    /\ errors = <<>>
    /\ pc = "scanning"
    /\ panic = ""
    /\ returned = [kind |-> "nothing", tokens |-> <<>>]
    /\ reported = <<>>
    /\ input = <<>>
    /\ curr = UsizeMax
    /\ expr = NoExpr
    /\ parse_pc = "idle"
    /\ first_scan = NoScan
    /\ last_call = NoCall
    /\ calls = 0
    /\ printed = <<>>

\* one iteration of scan_tokens' loop: start is set and one lexeme scanned
\* the scanner the iteration leaves becomes the state
Becomes(s) ==
    /\ col' = s.col
    /\ line' = s.line
    /\ start' = s.start
    /\ tokens' = s.tokens
    /\ errors' = s.errors
    /\ panic' = s.panic
    /\ pc' = IF s.panic # "" THEN "panicked" ELSE "scanning"

Iterate ==
    /\ pc = "scanning"
    /\ ~is_end(Self)
    /\ Becomes(scan_lexeme([Self EXCEPT !.start = col]))
    /\ UNCHANGED <<source, returned, reported>>
    /\ UNCHANGED <<parser_vars, caller_vars>>

\* the iteration, by the handler its first character is dispatched to
ScanSingle ==
    /\ peek(Self, FALSE) \in DOMAIN SingleCharKind
    /\ Iterate

ScanOperator ==
    /\ peek(Self, FALSE) \in DOMAIN OperatorKind
    /\ Iterate

ScanBlank ==
    /\ peek(Self, FALSE) \in BlankChars
    /\ Iterate

ScanNewline ==
    /\ peek(Self, FALSE) = "\n"
    /\ Iterate

ScanString ==
    /\ peek(Self, FALSE) = "\""
    /\ Iterate

ScanSlash ==
    /\ peek(Self, FALSE) = "/"
    /\ Iterate

ScanNumber ==
    /\ peek(Self, FALSE) \notin DOMAIN lex_func
    /\ is_digit(peek(Self, FALSE))
    /\ Iterate

ScanIdentifier ==
    /\ peek(Self, FALSE) \notin DOMAIN lex_func
    /\ is_ascii_alphabetic(peek(Self, FALSE))
    /\ Iterate

ScanUnexpected ==
    /\ peek(Self, FALSE) \notin DOMAIN lex_func
    /\ ~is_digit(peek(Self, FALSE))
    /\ ~is_ascii_alphabetic(peek(Self, FALSE))
    /\ Iterate

\* the loop ends; scan_tokens reports the diagnostics and returns the tokens
ScanReturn ==
    /\ pc = "scanning"
    /\ is_end(Self)
    /\ reported' = IF has_errors(Self) THEN errors ELSE reported
    /\ returned' = [kind |-> "tokens", tokens |-> tokens]
    /\ pc' = "done"
    /\ UNCHANGED <<source, col, line, start, tokens, errors, panic>>
    /\ UNCHANGED <<parser_vars, caller_vars>>

Next ==
    \/ ScanSingle
    \/ ScanOperator
    \/ ScanBlank
    \/ ScanNewline
    \/ ScanString
    \/ ScanSlash
    \/ ScanNumber
    \/ ScanIdentifier
    \/ ScanUnexpected
    \/ ScanReturn

vars == <<scanner_vars, parser_vars, caller_vars>>

Spec == Init /\ [][Next]_vars

(***************************************************************************)
(* A second scan, of the text the first scan's tokens are written out as.  *)
(***************************************************************************)
\* the tokens as run prints them (Display for Token writes the lexeme),
\* one after the other, a blank after each
RECURSIVE Render(_)
Render(ts) ==
    IF ts = <<>> THEN <<>> ELSE Head(ts).lexeme \o <<" ">> \o Render(Tail(ts))

\* scan_tokens called again, with a new Scanner, on the rendering of the
\* tokens a scan without diagnostics returned
Rescan ==
    /\ pc = "done"
    /\ ~has_errors(Self)
    /\ ~first_scan.taken
    /\ first_scan' = [taken |-> TRUE, tokens |-> returned.tokens]
    /\ source' = Render(returned.tokens)
    /\ col' = 0
    /\ line' = 1
    /\ start' = 0
    /\ tokens' = <<>>
    /\ errors' = <<>>
    /\ pc' = "scanning"
    /\ panic' = ""
    /\ returned' = [kind |-> "nothing", tokens |-> <<>>]
    /\ UNCHANGED <<reported, parser_vars, last_call, calls, printed>>

RoundTripNext ==
    \/ Next
    \/ Rescan

RoundTripSpec == Init /\ [][RoundTripNext]_vars

(***************************************************************************)
(* Marcher<Token>: the parser's cursor over the variable input.            *)
(***************************************************************************)
\* usize::overflowing_add, the sum only
OverflowingAdd(a, b) ==
    IF b > UsizeMax - a THEN b - (UsizeMax - a) - 1 ELSE a + b

\* Option::None of a token
NoToken == [token_type |-> "None"]

\* self.values.get(pos)
ValuesGet(pos) == IF pos < Len(input) THEN input[pos + 1] ELSE NoToken

Marcher_peek(c, offset) == ValuesGet(OverflowingAdd(c, offset))

\* the position advance leaves; the element returned is ValuesGet of it
Marcher_advance(c, offset) == OverflowingAdd(c, offset)

\* advance_if with a predicate that accepts the token types in types:
\* the position it leaves and the token it returns
\* advance_if, were it to consume the next element whatever the predicate says
Marcher_advance_if_unconditional(c, types) ==
    LET t == Marcher_peek(c, 1)
    IN  IF t # NoToken
        THEN [curr |-> Marcher_advance(c, 1),
              tok |-> ValuesGet(Marcher_advance(c, 1))]
        ELSE [curr |-> c, tok |-> NoToken]

Marcher_advance_if(c, types) ==
    LET t == Marcher_peek(c, 1)
    IN  IF t # NoToken /\ t.token_type \in types
        THEN [curr |-> Marcher_advance(c, 1),
              tok |-> ValuesGet(Marcher_advance(c, 1))]
        ELSE [curr |-> c, tok |-> NoToken]

\* Option<&[T]>
NoSlice == [some |-> FALSE, slice |-> <<>>]

\* peek_range: self.values.get(a..b), None when a > b or b > len
Marcher_peek_range(a, b) ==
    IF a <= b /\ b <= Len(input)
    THEN [some |-> TRUE, slice |-> SubSeq(input, a + 1, b)]
    ELSE NoSlice

\* the loop of advance_until with a predicate that accepts the token
\* types in types: the position it leaves
RECURSIVE Marcher_advance_until_loop(_, _)
Marcher_advance_until_loop(c, types) ==
    IF Marcher_peek(c, 1) = NoToken THEN c
    ELSE IF Marcher_peek(c, 1).token_type \in types THEN c
    ELSE Marcher_advance_until_loop(Marcher_advance(c, 1), types)

\* advance_until: the position it leaves and the slice it returns
Marcher_advance_until(c, types) ==
    [curr |-> Marcher_advance_until_loop(c, types),
     ret |-> Marcher_peek_range(c, Marcher_advance_until_loop(c, types))]

Marcher_completed(c) == Len(input) = OverflowingAdd(c, 1)

(***************************************************************************)
(* Expression trees and the parser.  Every method takes the cursor         *)
(* position and returns the position it leaves, the tree, and the panic    *)
(* that aborted it ("" when it returned).                                  *)
(***************************************************************************)
Bin(left, op, right) ==
    [node |-> "Bin", left |-> left, operator |-> op, right |-> right]

Cond(cond, cons, alt) ==
    [node |-> "Cond", cond |-> cond, cons |-> cons, alt |-> alt]

Grp(inner) == [node |-> "Grp", expression |-> inner]

Un(op, right) == [node |-> "Un", operator |-> op, right |-> right]

\* Lit.value: None, or the boxed value with its Rust type
Lit(type, val) == [node |-> "Lit", value |-> [type |-> type, val |-> val]]

Returned(c, e) == [curr |-> c, expr |-> e, panic |-> ""]

Panicked(c, message) == [curr |-> c, expr |-> NoExpr, panic |-> message]

\* the token types primary's advance_if accepts
primary_accepts == {"True", "Nil", "String", "Number", "LeftParen"}

\* a call of the method named rule
RECURSIVE Call(_, _)

\* primary, were a group that no ) closes accepted
primary_without_closing_check(c) ==
    LET a == Marcher_advance_if(c, primary_accepts)
        t == a.tok
    IN  IF t = NoToken
        THEN Panicked(c, "Invalid token to start an expression.")
        ELSE CASE t.token_type = "True" ->
                    Returned(a.curr, Lit("bool", <<"t", "r", "u", "e">>))
               [] t.token_type = "Nil" ->
                    Returned(a.curr, Lit("None", <<>>))
               [] t.token_type = "String" ->
                    Returned(a.curr, Lit("Option<String>", t.literal.val))
               [] t.token_type = "Number" ->
                    Returned(a.curr, Lit("Option<f64>", t.literal.val))
               [] t.token_type = "LeftParen" ->
                    LET e == Call("expression", a.curr)
                        close == Marcher_advance_if(e.curr, {"RightParen"})
                    IN  IF e.panic # "" THEN e
                        ELSE Returned(close.curr, Grp(e.expr))
               [] OTHER -> Returned(a.curr, Lit("None", <<>>))

primary(c) ==
    LET a == Marcher_advance_if(c, primary_accepts)
        t == a.tok
    IN  IF t = NoToken
        THEN Panicked(c, "Invalid token to start an expression.")
        ELSE CASE t.token_type = "True" ->
                    Returned(a.curr, Lit("bool", <<"t", "r", "u", "e">>))
               [] t.token_type = "Nil" ->
                    Returned(a.curr, Lit("None", <<>>))
               [] t.token_type = "String" ->
                    Returned(a.curr, Lit("Option<String>", t.literal.val))
               [] t.token_type = "Number" ->
                    Returned(a.curr, Lit("Option<f64>", t.literal.val))
               [] t.token_type = "LeftParen" ->
                    LET e == Call("expression", a.curr)
                        close == Marcher_advance_if(e.curr, {"RightParen"})
                    IN  IF e.panic # "" THEN e
                        ELSE IF close.tok = NoToken
                        THEN Panicked(e.curr,
                                 "Invalid token to start an expression.")
                        ELSE Returned(close.curr, Grp(e.expr))
               [] OTHER -> Returned(a.curr, Lit("None", <<>>))

\* unary, were its operand a whole factor
unary_over_factor(c) ==
    LET a == Marcher_advance_if(c, {"Bang", "Minus"})
    IN  IF a.tok # NoToken
        THEN LET r == Call("factor", a.curr)
             IN  IF r.panic # "" THEN r
                 ELSE Returned(r.curr, Un(a.tok, r.expr))
        ELSE Call("primary", c)

unary(c) ==
    LET a == Marcher_advance_if(c, {"Bang", "Minus"})
    IN  IF a.tok # NoToken
        THEN LET r == Call("unary", a.curr)
             IN  IF r.panic # "" THEN r
                 ELSE Returned(r.curr, Un(a.tok, r.expr))
        ELSE Call("primary", c)

\* factor's loop, were it to take the term tier's + as well
factor_loop_taking_plus(left) ==
    LET a == Marcher_advance_if(left.curr, {"Slash", "Star", "Plus"})
    IN  IF a.tok = NoToken THEN left
        ELSE LET r == Call("unary", a.curr)
             IN  IF r.panic # "" THEN r
                 ELSE Call("factor_loop", Returned(r.curr, Bin(left.expr, a.tok, r.expr)))

\* the while loop of factor, entered with the running left expression
factor_loop(left) ==
    LET a == Marcher_advance_if(left.curr, {"Slash", "Star"})
    IN  IF a.tok = NoToken THEN left
        ELSE LET r == Call("unary", a.curr)
             IN  IF r.panic # "" THEN r
                 ELSE Call("factor_loop", Returned(r.curr, Bin(left.expr, a.tok, r.expr)))

factor(c) ==
    LET e == Call("unary", c)
    IN  IF e.panic # "" THEN e ELSE Call("factor_loop", e)

\* term's loop, were its right operand parsed as a whole term
term_loop_right_recursive(left) ==
    LET a == Marcher_advance_if(left.curr, {"Plus", "Minus"})
    IN  IF a.tok = NoToken THEN left
        ELSE LET r == Call("term", a.curr)
             IN  IF r.panic # "" THEN r
                 ELSE Call("term_loop", Returned(r.curr, Bin(left.expr, a.tok, r.expr)))

term_loop(left) ==
    LET a == Marcher_advance_if(left.curr, {"Plus", "Minus"})
    IN  IF a.tok = NoToken THEN left
        ELSE LET r == Call("factor", a.curr)
             IN  IF r.panic # "" THEN r
                 ELSE Call("term_loop", Returned(r.curr, Bin(left.expr, a.tok, r.expr)))

term(c) ==
    LET e == Call("factor", c)
    IN  IF e.panic # "" THEN e ELSE Call("term_loop", e)

comparison_loop(left) ==
    LET a == Marcher_advance_if(left.curr,
                 {"Greater", "GreaterEqual", "LessEqual", "Less"})
    IN  IF a.tok = NoToken THEN left
        ELSE LET r == Call("term", a.curr)
             IN  IF r.panic # "" THEN r
                 ELSE Call("comparison_loop", 
                          Returned(r.curr, Bin(left.expr, a.tok, r.expr)))

comparison(c) ==
    LET e == Call("term", c)
    IN  IF e.panic # "" THEN e ELSE Call("comparison_loop", e)

equality_loop(left) ==
    LET a == Marcher_advance_if(left.curr, {"BangEqual", "EqualEqual"})
    IN  IF a.tok = NoToken THEN left
        ELSE LET r == Call("comparison", a.curr)
             IN  IF r.panic # "" THEN r
                 ELSE Call("equality_loop", 
                          Returned(r.curr, Bin(left.expr, a.tok, r.expr)))

equality(c) ==
    LET e == Call("comparison", c)
    IN  IF e.panic # "" THEN e ELSE Call("equality_loop", e)

\* ternary, were a missing : tolerated
ternary_with_optional_colon(c) ==
    LET e == Call("equality", c)
        q == Marcher_advance_if(e.curr, {"Question"})
    IN  IF e.panic # "" THEN e
        ELSE IF q.tok = NoToken THEN e
        ELSE LET cons == Call("expression", q.curr)
                 colon == Marcher_advance_if(cons.curr, {"Colon"})
                 alt == Call("expression", colon.curr)
             IN  IF cons.panic # "" THEN cons
                 ELSE IF alt.panic # "" THEN alt
                 ELSE Returned(alt.curr, Cond(e.expr, cons.expr, alt.expr))

ternary(c) ==
    LET e == Call("equality", c)
        q == Marcher_advance_if(e.curr, {"Question"})
    IN  IF e.panic # "" THEN e
        ELSE IF q.tok = NoToken THEN e
        ELSE LET cons == Call("expression", q.curr)
                 colon == Marcher_advance_if(cons.curr, {"Colon"})
                 alt == Call("expression", colon.curr)
             IN  IF cons.panic # "" THEN cons
                 ELSE IF colon.tok = NoToken
                 THEN Panicked(cons.curr, "No alternate condition provided")
                 ELSE IF alt.panic # "" THEN alt
                 ELSE Returned(alt.curr, Cond(e.expr, cons.expr, alt.expr))

\* the while loop of expression: after a Comma the tree so far is replaced
expression_loop(e) ==
    LET a == Marcher_advance_if(e.curr, {"Comma"})
    IN  IF a.tok = NoToken THEN e
        ELSE LET r == Call("equality", a.curr)
             IN  IF r.panic # "" THEN r ELSE Call("expression_loop", r)

expression(c) ==
    LET e == Call("ternary", c)
    IN  IF e.panic # "" THEN e ELSE Call("expression_loop", e)

Call(rule, x) ==
    CASE rule = "expression" -> expression(x)
      [] rule = "expression_loop" -> expression_loop(x)
      [] rule = "ternary" -> ternary(x)
      [] rule = "equality" -> equality(x)
      [] rule = "equality_loop" -> equality_loop(x)
      [] rule = "comparison" -> comparison(x)
      [] rule = "comparison_loop" -> comparison_loop(x)
      [] rule = "term" -> term(x)
      [] rule = "term_loop" -> term_loop(x)
      [] rule = "factor" -> factor(x)
      [] rule = "factor_loop" -> factor_loop(x)
      [] rule = "unary" -> unary(x)
      [] rule = "primary" -> primary(x)

\* parse: Parser::new, then expression
parse == Call("expression", UsizeMax)

(***************************************************************************)
(* The parser's inputs: token sequences as the scanner builds them.        *)
(***************************************************************************)
TokenKinds ==
    {"True", "False", "Nil", "String", "Number", "LeftParen", "RightParen",
     "Comma", "Question", "Colon", "BangEqual", "EqualEqual", "Greater",
     "GreaterEqual", "Less", "LessEqual", "Plus", "Minus", "Slash", "Star",
     "Bang", "Identifier"}

\* the lexeme add_token_literal stores for a token of the kind
KindLexeme(kind) ==
    CASE kind = "True" -> <<"t", "r", "u", "e">>
      [] kind = "False" -> <<"f", "a", "l", "s", "e">>
      [] kind = "Nil" -> <<"n", "i", "l">>
      [] kind = "String" -> <<"x">>
      [] kind = "Number" -> <<"1">>
      [] kind = "Identifier" -> <<"x">>
      [] kind = "LeftParen" -> <<"(">>
      [] kind = "RightParen" -> <<")">>
      [] kind = "Comma" -> <<",">>
      [] kind = "Question" -> <<"?">>
      [] kind = "Colon" -> <<":">>
      [] kind = "BangEqual" -> <<"!", "=">>
      [] kind = "EqualEqual" -> <<"=", "=">>
      [] kind = "Greater" -> <<">">>
      [] kind = "GreaterEqual" -> <<">", "=">>
      [] kind = "Less" -> <<"<">>
      [] kind = "LessEqual" -> <<"<", "=">>
      [] kind = "Plus" -> <<"+">>
      [] kind = "Minus" -> <<"-">>
      [] kind = "Slash" -> <<"/">>
      [] kind = "Star" -> <<"*">>
      [] kind = "Bang" -> <<"!">>

\* the decimal text of a natural number
RECURSIVE Decimal(_)
Decimal(n) ==
    LET digit == <<"0", "1", "2", "3", "4", "5", "6", "7", "8", "9">>[(n % 10) + 1]
    IN  IF n < 10 THEN <<digit>> ELSE Decimal(n \div 10) \o <<digit>>

\* a token of the kind, the i-th of a one-line input; a Number token is
\* the number i, so that the operands of an input differ
MakeToken(kind, i) ==
    [token_type |-> kind,
     lexeme |-> IF kind = "Number" THEN Decimal(i) ELSE KindLexeme(kind),
     literal |->
        CASE kind = "Number" -> [kind |-> "Number", val |-> Decimal(i)]
          [] kind = "String" -> [kind |-> "String", val |-> <<"x">>]
          [] kind = "Identifier" -> [kind |-> "Identifier", val |-> <<"x">>]
          [] OTHER -> NoLiteral,
     line |-> 1,
     col |-> i]

\* the operators of the four binary tiers
BinaryOps ==
    {"Slash", "Star", "Plus", "Minus", "Greater", "GreaterEqual", "LessEqual",
     "Less", "BangEqual", "EqualEqual"}

\* operands joined by binary operators: 1 op 2 op 3 ...
ChainKinds ==
    {[i \in 1..(2 * Len(os) + 1) |->
         IF i % 2 = 1 THEN "Number" ELSE os[i \div 2]] :
        os \in Str(BinaryOps, MaxOps)}

TernaryKinds == {"Number", "Question", "Colon"}

\* a condition and its ?, then operands, ? and :
TernaryInputs ==
    {<<"Number", "Question">> \o ks : ks \in Str(TernaryKinds, MaxTernaryLen)}

GroupKinds == {"Number", "Plus", "Star", "RightParen"}

GroupInputs == {<<"LeftParen">> \o ks : ks \in Str(GroupKinds, MaxGroupLen)}

PrefixOps == {"Bang", "Minus"}

\* what follows a prefixed operand: nothing, or a binary operator and an
\* operand, itself prefixed or not
AfterOperand ==
    {<<>>} \cup {<<op, "Number">> : op \in BinaryOps}
        \cup {<<op, "Minus", "Number">> : op \in BinaryOps}

PrefixInputs ==
    {ps \o <<"Number">> \o rest :
        ps \in Str(PrefixOps, MaxPrefixes), rest \in AfterOperand}

KindInputs ==
    Str(TokenKinds, MaxTokens) \cup ChainKinds
        \cup TernaryInputs \cup GroupInputs \cup PrefixInputs

TokensOf(ks) == [i \in 1..Len(ks) |-> MakeToken(ks[i], i)]

TokenInputs == {TokensOf(ks) : ks \in KindInputs}

ParserInit ==
    /\ source = <<>>
    /\ col = 0
    /\ line = 1
    /\ start = 0
    /\ tokens = <<>>
    /\ errors = <<>>
    /\ pc = "idle"
    /\ panic = ""
    /\ returned = [kind |-> "nothing", tokens |-> <<>>]
    /\ reported = <<>>
    /\ input \in TokenInputs
    /\ curr = UsizeMax
    /\ expr = NoExpr
    /\ parse_pc = "ready"
    /\ first_scan = NoScan
    /\ last_call = NoCall
    /\ calls = 0
    /\ printed = <<>>

\* parse returns a tree
ParseReturns ==
    /\ parse_pc = "ready"
    /\ parse.panic = ""
    /\ curr' = parse.curr
    /\ expr' = parse.expr
    /\ parse_pc' = "returned"
    /\ UNCHANGED <<input, scanner_vars, caller_vars>>

\* parse panics
ParsePanics ==
    /\ parse_pc = "ready"
    /\ parse.panic # ""
    /\ curr' = parse.curr
    /\ expr' = NoExpr
    /\ parse_pc' = "panicked"
    /\ UNCHANGED <<input, scanner_vars, caller_vars>>

\* {:?} of an f64: Display's text, with .0 after a whole number
DebugF64(val) ==
    IF \E i \in 1..Len(val) : val[i] = "." THEN val ELSE val \o <<".", "0">>

\* {:?} of a str: quoted, with the quote, the backslash and the control
\* characters escaped
RECURSIVE EscapeDebug(_)
EscapeDebug(val) ==
    IF val = <<>> THEN <<>>
    ELSE (CASE Head(val) = "\"" -> <<"\\", "\"">>
            [] Head(val) = "\\" -> <<"\\", "\\">>
            [] Head(val) = "\n" -> <<"\\", "n">>
            [] Head(val) = "\r" -> <<"\\", "r">>
            [] Head(val) = "\t" -> <<"\\", "t">>
            [] OTHER -> <<Head(val)>>) \o EscapeDebug(Tail(val))

\* {:?} of the value boxed in a Lit, by its Rust type
DebugValue(value) ==
    CASE value.type = "bool" -> value.val
      [] value.type = "Option<f64>" ->
            <<"S", "o", "m", "e", "(">> \o DebugF64(value.val) \o <<")">>
      [] value.type = "Option<String>" ->
            <<"S", "o", "m", "e", "(", "\"">> \o EscapeDebug(value.val)
                \o <<"\"", ")">>

\* Display of the trees: what {} writes
RECURSIVE Display(_)
Display(e) ==
    CASE e.node = "Bin" ->
            <<"(">> \o e.operator.lexeme \o <<" ">> \o Display(e.left)
                \o <<" ">> \o Display(e.right) \o <<")">>
      [] e.node = "Cond" ->
            <<"(">> \o Display(e.cond) \o <<" ", "?", " ">>
                \o Display(e.cons) \o <<" ", ":", " ">> \o Display(e.alt)
                \o <<")">>
      [] e.node = "Grp" ->
            <<"(", "g", "r", "p", " ">> \o Display(e.expression) \o <<")">>
      [] e.node = "Lit" ->
            IF e.value.type = "None" THEN <<"n", "i", "l">>
            ELSE DebugValue(e.value)
      [] e.node = "Un" ->
            <<"(">> \o e.operator.lexeme \o <<" ">> \o Display(e.right)
                \o <<")">>

\* the tree parse returned is formatted with {}
DisplayTree ==
    /\ parse_pc = "returned"
    /\ printed = <<>>
    /\ printed' = Display(expr)
    /\ UNCHANGED <<scanner_vars, parser_vars, first_scan, last_call, calls>>

ParserNext ==
    \/ ParseReturns
    \/ ParsePanics
    \/ DisplayTree

ParserSpec == ParserInit /\ [][ParserNext]_vars

(***************************************************************************)
(* The cursors on their own: calls on a Marcher over a token sequence and  *)
(* Scanner::advance_if on a byte source, as the scanner's test drives it.  *)
(***************************************************************************)
CursorKinds == {"Number", "Plus"}

CursorValues == {TokensOf(ks) : ks \in Str(CursorKinds, MaxValues)}

\* the predicates handed to advance_if and advance_until, each by the
\* token types it accepts
Predicates == {{"Number"}, {"Plus"}}

\* the offsets handed to advance
Offsets == {0, 1, 2, UsizeMax}

TestAdvanceIf == <<"1", "2", "3">>

ByteSources == {TestAdvanceIf} \cup Str({"1", "2"}, 2)

CursorInit ==
    /\ \/ source \in ByteSources /\ input = <<>>
       \/ source = <<>> /\ input \in CursorValues
    /\ col = 0
    /\ line = 1
    /\ start = 0
    /\ tokens = <<>>
    /\ errors = <<>>
    /\ pc = "idle"
    /\ panic = ""
    /\ returned = [kind |-> "nothing", tokens |-> <<>>]
    /\ reported = <<>>
    /\ curr = UsizeMax
    /\ expr = NoExpr
    /\ parse_pc = "idle"
    /\ first_scan = NoScan
    /\ last_call = NoCall
    /\ calls = 0
    /\ printed = <<>>

\* what a call on the Marcher leaves alone
MarcherCalled ==
    /\ calls < MaxCalls
    /\ calls' = calls + 1
    /\ UNCHANGED <<scanner_vars, input, expr, parse_pc, first_scan, printed>>

CallAdvance ==
    \E offset \in Offsets :
        /\ curr' = Marcher_advance(curr, offset)
        /\ last_call' = [op |-> "advance", arg |-> offset, prev |-> curr,
                         ret |-> ValuesGet(Marcher_advance(curr, offset))]
        /\ MarcherCalled

CallAdvanceIf ==
    \E types \in Predicates :
        /\ curr' = Marcher_advance_if(curr, types).curr
        /\ last_call' = [op |-> "advance_if", arg |-> types, prev |-> curr,
                         ret |-> Marcher_advance_if(curr, types).tok]
        /\ MarcherCalled

CallAdvanceUntil ==
    \E types \in Predicates :
        /\ curr' = Marcher_advance_until(curr, types).curr
        /\ last_call' = [op |-> "advance_until", arg |-> types, prev |-> curr,
                         ret |-> Marcher_advance_until(curr, types).ret]
        /\ MarcherCalled

CallScannerAdvanceIf ==
    \E expected \in {"1", "2", "3"} :
        /\ calls < MaxCalls
        /\ calls' = calls + 1
        /\ col' = advance_if(Self, expected).col
        /\ last_call' = [op |-> "Scanner::advance_if", arg |-> expected,
                         prev |-> col,
                         ret |-> advance_if_matches(Self, expected)]
        /\ UNCHANGED <<source, line, start, tokens, errors, pc, panic,
                       returned, reported, parser_vars, first_scan, printed>>

CursorNext ==
    \/ CallAdvance
    \/ CallAdvanceIf
    \/ CallAdvanceUntil
    \/ CallScannerAdvanceIf

CursorSpec == CursorInit /\ [][CursorNext]_vars

(***************************************************************************)
(* Properties of the scanner.                                              *)
(***************************************************************************)
HasError(message) == \E i \in 1..Len(errors) : errors[i].message = message

HasToken(token_type) ==
    \E i \in 1..Len(tokens) : tokens[i].token_type = token_type

\* C1: the entry point hands its caller the token sequence or the
\* diagnostics, never both: once a diagnostic was recorded, no token
\* sequence is returned.
C1_TokensOrDiagnostics ==
    (pc = "done" /\ Len(errors) > 0) => returned.kind # "tokens"

\* the input opens a block comment and no "*/" follows the opening
OpensUnclosedBlockComment(src) ==
    /\ Len(src) >= 2
    /\ src[1] = "/"
    /\ src[2] = "*"
    /\ \A i \in 3..(Len(src) - 1) : ~(src[i] = "*" /\ src[i + 1] = "/")

\* C2: when the input ends inside a block comment that was never closed,
\* the scan records "Unterminated block comment."
C2_UnterminatedBlockComment ==
    (pc = "done" /\ OpensUnclosedBlockComment(source))
        => HasError("Unterminated block comment.")

\* the input is an opening quote and no other quote follows it
OpensUnclosedString(src) ==
    /\ Len(src) >= 1
    /\ src[1] = "\""
    /\ \A i \in 2..Len(src) : src[i] # "\""

\* C3: a string whose opening quote is never closed, the quote being the
\* last character included, makes the scan record "Unterminated string.",
\* emit no String token and finish without aborting.
C3_UnterminatedString ==
    OpensUnclosedString(source) =>
        /\ pc # "panicked"
        /\ pc = "done" =>
              HasError("Unterminated string.") /\ ~HasToken("String")

OnlyDigitsAndDots(src) ==
    Len(src) >= 1 /\ \A i \in 1..Len(src) : src[i] \in Digits \cup {"."}

\* C4: for an input of digits and dots the scan never aborts and every
\* Number token is a decimal literal with at most one '.'.
C4_NumberAtMostOneDot ==
    OnlyDigitsAndDots(source) =>
        /\ pc # "panicked"
        /\ \A i \in 1..Len(tokens) :
              tokens[i].token_type = "Number" =>
                  Cardinality(DotPositions(tokens[i].lexeme)) <= 1

\* The offset just past the "*/" that closes the comment whose body starts
\* at offset i with depth comments open, or -1 when the input ends first.
RECURSIVE CommentEnd(_, _, _)
CommentEnd(src, i, depth) ==
    IF i + 1 >= Len(src)
    THEN -1
    ELSE IF src[i + 1] = "/" /\ src[i + 2] = "*"
    THEN CommentEnd(src, i + 2, depth + 1)
    ELSE IF src[i + 1] = "*" /\ src[i + 2] = "/"
    THEN IF depth = 1 THEN i + 2 ELSE CommentEnd(src, i + 2, depth - 1)
    ELSE CommentEnd(src, i + 1, depth)

OpensClosedBlockComment(src) ==
    /\ Len(src) >= 2
    /\ src[1] = "/"
    /\ src[2] = "*"
    /\ CommentEnd(src, 2, 1) >= 0

\* C5: block comments nest: once a comment opened at the start of the
\* input has been scanned, the scanner stands on the character after the
\* "*/" that matches the outermost "/*".
C5_NestedCommentResumes ==
    (OpensClosedBlockComment(source) /\ start = 0 /\ col > 0)
        => col = CommentEnd(source, 2, 1)

NewlinesConsumed ==
    Cardinality({i \in 1..Len(source) : i <= col /\ source[i] = "\n"})

\* C6: at every point of a scan the line counter is 1 plus the number of
\* newlines consumed so far.
C6_LineCounter == line = 1 + NewlinesConsumed

\* the reserved words and their kinds
Reserved16 ==
    (<<"a", "n", "d">> :> "And") @@ (<<"c", "l", "a", "s", "s">> :> "Class")
    @@ (<<"e", "l", "s", "e">> :> "Else")
    @@ (<<"f", "a", "l", "s", "e">> :> "False")
    @@ (<<"f", "u", "n">> :> "Fun") @@ (<<"f", "o", "r">> :> "For")
    @@ (<<"i", "f">> :> "If") @@ (<<"n", "i", "l">> :> "Nil")
    @@ (<<"o", "r">> :> "Or") @@ (<<"p", "r", "i", "n", "t">> :> "Print")
    @@ (<<"r", "e", "t", "u", "r", "n">> :> "Return")
    @@ (<<"s", "u", "p", "e", "r">> :> "Super")
    @@ (<<"t", "h", "i", "s">> :> "This") @@ (<<"t", "r", "u", "e">> :> "True")
    @@ (<<"v", "a", "r">> :> "Var") @@ (<<"w", "h", "i", "l", "e">> :> "While")

Reserved16AndEof == Reserved16 @@ (<<"e", "o", "f">> :> "Eof")

\* the input is words separated by blanks, each word a run of letters and
\* digits that starts with a letter
IsWordList(src) ==
    /\ \A i \in 1..Len(src) : is_alphanumeric(src[i]) \/ src[i] = " "
    /\ \A i \in 1..Len(src) :
          is_digit(src[i]) => (i > 1 /\ is_alphanumeric(src[i - 1]))

WordLen(src) ==
    IF \E i \in 1..Len(src) : src[i] = " "
    THEN (CHOOSE i \in 1..Len(src) :
             src[i] = " " /\ \A j \in 1..(i - 1) : src[j] # " ") - 1
    ELSE Len(src)

RECURSIVE SplitWords(_)
SplitWords(src) ==
    IF src = <<>> THEN <<>>
    ELSE IF Head(src) = " " THEN SplitWords(Tail(src))
    ELSE <<SubSeq(src, 1, WordLen(src))>>
             \o SplitWords(SubSeq(src, WordLen(src) + 1, Len(src)))

\* every word scans to the kind the table gives it, and to an Identifier
\* that carries the word when the table has none
WordsScanTo(table) ==
    (pc = "done" /\ IsWordList(source)) =>
        LET ws == SplitWords(source)
        IN  /\ errors = <<>>
            /\ Len(tokens) = Len(ws)
            /\ \A i \in 1..Len(ws) :
                  IF ws[i] \in DOMAIN table
                  THEN tokens[i].token_type = table[ws[i]]
                  ELSE /\ tokens[i].token_type = "Identifier"
                       /\ tokens[i].literal
                              = [kind |-> "Identifier", val |-> ws[i]]
                       /\ tokens[i].lexeme = ws[i]

\* C7 (as stated): each of the 16 reserved words scans to its keyword kind
\* and every other run of letters and digits that starts with a letter
\* scans to an Identifier carrying that text, case-sensitively.
C7_KeywordsAndIdentifiers == WordsScanTo(Reserved16)

\* C7 (amended): as stated, except that the text eof is reserved too and
\* scans to the Eof kind.
C7_KeywordsEofAndIdentifiers == WordsScanTo(Reserved16AndEof)

\* a scan of words has produced a keyword, the Eof kind and an Identifier
\* that differs from a keyword only by case
C7_Witness ==
    /\ pc = "done"
    /\ IsWordList(source)
    /\ HasToken("This")
    /\ HasToken("Eof")
    /\ \E i \in 1..Len(tokens) :
          /\ tokens[i].token_type = "Identifier"
          /\ tokens[i].literal.val = <<"T", "H", "I", "S">>

IsUnexpected(c) ==
    /\ c \notin DOMAIN lex_func
    /\ ~is_digit(c)
    /\ ~is_ascii_alphabetic(c)

\* C8: lexical errors are recovered locally: an illegal character followed
\* by a string that is never closed yields an "Unexpected character."
\* diagnostic at the column just past the character and then the
\* "Unterminated string." diagnostic, and the scan runs to the end of the
\* input.
C8_LocalRecovery ==
    (/\ Len(source) >= 2
     /\ IsUnexpected(source[1])
     /\ OpensUnclosedString(Tail(source)))
    => /\ pc # "panicked"
       /\ col >= 1 =>
             /\ Len(errors) >= 1
             /\ errors[1].message = "Unexpected character."
             /\ errors[1].col = 1
       /\ pc = "done" =>
             /\ col >= Len(source)
             /\ Len(errors) >= 2
             /\ errors[2].message = "Unterminated string."

(***************************************************************************)
(* Properties of the parser.                                               *)
(***************************************************************************)
LiteralKinds == {"True", "False", "Nil", "String", "Number"}

\* C9: primary accepts each of true, false, nil, String and Number as a
\* literal and consumes exactly that token; a false token yields a boolean
\* literal, not a parse failure.
C9_PrimaryLiterals ==
    (/\ parse_pc # "ready"
     /\ Len(input) = 1
     /\ input[1].token_type \in LiteralKinds)
    => /\ parse_pc = "returned"
       /\ expr.node = "Lit"
       /\ curr = 0
       /\ input[1].token_type \in {"True", "False"} => expr.value.type = "bool"

RECURSIVE Leaves(_)
Leaves(e) ==
    CASE e.node = "Lit" -> 1
      [] e.node = "Grp" -> Leaves(e.expression)
      [] e.node = "Un" -> Leaves(e.right)
      [] e.node = "Bin" -> Leaves(e.left) + Leaves(e.right)
      [] e.node = "Cond" -> Leaves(e.cond) + Leaves(e.cons) + Leaves(e.alt)
      [] OTHER -> 0

\* the tokens the cursor has passed
Consumed == IF curr = UsizeMax THEN {} ELSE {i \in 1..Len(input) : i <= curr + 1}

\* C10: an expression is exactly one ternary: a successful parse has
\* consumed no Comma, and every operand token it consumed is a leaf of the
\* returned tree.
C10_ExpressionIsOneTernary ==
    parse_pc = "returned" =>
        /\ \A i \in Consumed : input[i].token_type # "Comma"
        /\ Leaves(expr)
              = Cardinality({i \in Consumed : input[i].token_type \in LiteralKinds})

\* the tokens the cursor has passed, in order
ConsumedPrefix ==
    SubSeq(input, 1, IF curr = UsizeMax THEN 0 ELSE curr + 1)

Lexemes(ts) == [i \in 1..Len(ts) |-> ts[i].lexeme]

\* the lexemes a tree stands for, left to right
RECURSIVE Yield(_)
Yield(e) ==
    CASE e.node = "Lit" ->
            <<CASE e.value.type = "bool" -> KindLexeme("True")
                [] e.value.type = "None" -> KindLexeme("Nil")
                [] OTHER -> e.value.val>>
      [] e.node = "Grp" ->
            <<KindLexeme("LeftParen")>> \o Yield(e.expression)
                \o <<KindLexeme("RightParen")>>
      [] e.node = "Un" -> <<e.operator.lexeme>> \o Yield(e.right)
      [] e.node = "Bin" ->
            Yield(e.left) \o <<e.operator.lexeme>> \o Yield(e.right)
      [] e.node = "Cond" ->
            Yield(e.cond) \o <<KindLexeme("Question")>> \o Yield(e.cons)
                \o <<KindLexeme("Colon")>> \o Yield(e.alt)
      [] OTHER -> <<>>

\* how tightly a binary operator binds
Tier(kind) ==
    CASE kind \in {"Slash", "Star"} -> 4
      [] kind \in {"Plus", "Minus"} -> 3
      [] kind \in {"Greater", "GreaterEqual", "LessEqual", "Less"} -> 2
      [] kind \in {"BangEqual", "EqualEqual"} -> 1

\* the direct operands of a node
Operands(e) ==
    CASE e.node = "Grp" -> {e.expression}
      [] e.node = "Un" -> {e.right}
      [] e.node = "Bin" -> {e.left, e.right}
      [] e.node = "Cond" -> {e.cond, e.cons, e.alt}
      [] OTHER -> {}

\* no binary node has, as a direct operand, a binary node of a looser tier
RECURSIVE TighterBelow(_)
TighterBelow(e) ==
    /\ e.node = "Bin" =>
          \A x \in Operands(e) :
              x.node = "Bin" =>
                  Tier(x.operator.token_type) >= Tier(e.operator.token_type)
    /\ \A x \in Operands(e) : TighterBelow(x)

NoComma(ts) == \A i \in 1..Len(ts) : ts[i].token_type # "Comma"

OnePlusTwoTimesThree == TokensOf(<<"Number", "Plus", "Number", "Star", "Number">>)

GroupedPlusTimesThree ==
    TokensOf(<<"LeftParen", "Number", "Plus", "Number", "RightParen", "Star",
               "Number">>)

Number(i) == Lit("Option<f64>", Decimal(i))

RECURSIVE Operators(_)
Operators(e) ==
    CASE e.node = "Grp" -> Operators(e.expression)
      [] e.node = "Un" -> <<e.operator>> \o Operators(e.right)
      [] e.node = "Bin" ->
            Operators(e.left) \o <<e.operator>> \o Operators(e.right)
      [] e.node = "Cond" ->
            Operators(e.cond) \o Operators(e.cons) \o Operators(e.alt)
      [] OTHER -> <<>>

\* the input is operands joined by binary operators
IsChain(ts) ==
    /\ Len(ts) % 2 = 1
    /\ \A i \in 1..Len(ts) :
          IF i % 2 = 1 THEN ts[i].token_type = "Number"
          ELSE ts[i].token_type \in BinaryOps

\* no binary node has a binary node of its own tier as its right operand
RECURSIVE LeftDeep(_)
LeftDeep(e) ==
    /\ e.node = "Bin" =>
          /\ e.right.node = "Bin" =>
                Tier(e.right.operator.token_type)
                    # Tier(e.operator.token_type)
          /\ e.left.node = "Bin" =>
                (Tier(e.left.operator.token_type)
                     >= Tier(e.operator.token_type))
    /\ \A x \in Operands(e) : LeftDeep(x)

\* C12: every binary tier is left-associative: a chain of operands and
\* binary operators parses, its tree holds the operands in order and each
\* operator token in the node built for it, and an operator of the same
\* tier as a node's is only ever within the node's left operand; so
\* 1 - 2 + 3 parses to (+ (- 1 2) 3).
C12_LeftAssociative ==
    (parse_pc # "ready" /\ IsChain(input)) =>
        /\ parse_pc = "returned"
        /\ Yield(expr) = Lexemes(input)
        /\ Operators(expr) = [i \in 1..(Len(input) \div 2) |-> input[2 * i]]
        /\ LeftDeep(expr)
        /\ (Len(input) = 5 /\ Tier(input[2].token_type) = Tier(input[4].token_type))
              => expr = Bin(Bin(Number(1), input[2], Number(3)), input[4],
                            Number(5))

\* a chain of three operators of one tier has been parsed into a tree
\* nested three deep on the left
C12_Witness ==
    /\ parse_pc = "returned"
    /\ IsChain(input)
    /\ Len(input) = 7
    /\ input[2].token_type = "Minus"
    /\ input[4].token_type = "Plus"
    /\ input[6].token_type = "Minus"
    /\ expr.left.node = "Bin"
    /\ expr.left.left.node = "Bin"
    /\ expr.left.left.operator = input[2]

\* every condition of a conditional is of the equality tier: not itself a
\* conditional
RECURSIVE EqualityConditions(_)
EqualityConditions(e) ==
    /\ e.node = "Cond" => e.cond.node # "Cond"
    /\ \A x \in Operands(e) : EqualityConditions(x)

KindsOf(ts) == [i \in 1..Len(ts) |-> ts[i].token_type]

ChainedTernary ==
    TokensOf(<<"Number", "Question", "Number", "Colon", "Number", "Question",
               "Number", "Colon", "Number">>)

\* C13: when a ? follows an equality-tier condition the consequent and the
\* alternative are each a full expression with a mandatory : between
\* them: the tree of a parse stands for the tokens consumed, ? and :
\* included, no condition is itself a conditional, no ? is left behind,
\* a consequent that no : follows aborts the parse, and
\* c1 ? a : c2 ? b : d parses to Conditional(c1, a, Conditional(c2, b, d)).
C13_Ternary ==
    /\ (parse_pc = "returned" /\ NoComma(ConsumedPrefix)) =>
          /\ Yield(expr) = Lexemes(ConsumedPrefix)
          /\ EqualityConditions(expr)
          /\ Marcher_peek(curr, 1).token_type # "Question"
    /\ (/\ parse_pc # "ready"
        /\ Len(input) >= 3
        /\ KindsOf(SubSeq(input, 1, 3)) = <<"Number", "Question", "Number">>
        /\ Len(input) > 3 => input[4].token_type \in {"Number", "RightParen"})
       => /\ parse_pc = "panicked"
          /\ parse.panic = "No alternate condition provided"
    /\ (parse_pc # "ready" /\ input = ChainedTernary) =>
          expr = Cond(Number(1), Number(3),
                      Cond(Number(5), Number(7), Number(9)))

\* c1 ? a : c2 ? b : d has been parsed into a conditional whose alternative
\* is a conditional
C13_Witness ==
    /\ parse_pc = "returned"
    /\ input = ChainedTernary
    /\ expr.node = "Cond"
    /\ expr.alt.node = "Cond"

\* the tokens that can start a primary, and the prefix operators before one
CanStartOperand ==
    {"Number", "String", "True", "False", "Nil", "LeftParen", "Bang", "Minus"}

\* the tokens after which an operand is expected
ExpectsOperand ==
    BinaryOps \cup {"Bang", "LeftParen", "Question", "Colon", "Comma"}

\* the tokens that neither continue an expression nor close a group
CannotFollowOperand ==
    {"Number", "String", "True", "False", "Nil", "LeftParen", "Identifier",
     "Bang"}

\* the number of tokens of the kind among the first n
CountOf(ts, kind, n) ==
    Cardinality({i \in 1..n : ts[i].token_type = kind})

\* every closing token has its opening token before it, and none is left open
Balanced(ts, opening, closing) ==
    /\ \A n \in 1..Len(ts) : CountOf(ts, closing, n) <= CountOf(ts, opening, n)
    /\ CountOf(ts, closing, Len(ts)) = CountOf(ts, opening, Len(ts))

\* C14: syntax errors are fatal.  A parse that returns a tree met no
\* structural violation: an operand starts the input and follows every
\* operator, (, ?, : that was consumed, every ( consumed has its ) and
\* every ? its :.  A parse that aborts returns no tree, and it aborts on
\* an empty input, on a first token that cannot start an operand, on a
\* group that no ) closes and on a consequent that no : follows.
C14_SyntaxErrorsFatal ==
    /\ parse_pc = "panicked" => expr = NoExpr
    /\ parse_pc = "returned" =>
          /\ Len(ConsumedPrefix) >= 1
          /\ input[1].token_type \in CanStartOperand
          /\ \A i \in 1..Len(ConsumedPrefix) :
                input[i].token_type \in ExpectsOperand =>
                    /\ i < Len(ConsumedPrefix)
                    /\ input[i + 1].token_type \in CanStartOperand
          /\ Balanced(ConsumedPrefix, "LeftParen", "RightParen")
          /\ Balanced(ConsumedPrefix, "Question", "Colon")
    /\ (parse_pc # "ready" /\ input = <<>>) => parse_pc = "panicked"
    /\ (/\ parse_pc # "ready"
        /\ Len(input) >= 1
        /\ input[1].token_type \notin CanStartOperand)
       => parse_pc = "panicked"
    /\ (/\ parse_pc # "ready"
        /\ Len(input) >= 2
        /\ KindsOf(SubSeq(input, 1, 2)) = <<"LeftParen", "Number">>
        /\ Len(input) > 2 =>
              input[3].token_type \in CannotFollowOperand \cup {"Colon"})
       => parse_pc = "panicked"
    /\ (/\ parse_pc # "ready"
        /\ Len(input) >= 3
        /\ KindsOf(SubSeq(input, 1, 3)) = <<"Number", "Question", "String">>
        /\ Len(input) > 3 =>
              input[4].token_type \in CannotFollowOperand \cup {"RightParen"})
       => parse_pc = "panicked"

\* a group that an operand follows instead of ) has aborted the parse
C14_Witness ==
    /\ parse_pc = "panicked"
    /\ KindsOf(input) = <<"LeftParen", "Number", "Number">>
    /\ expr = NoExpr
    /\ parse.panic = "Invalid token to start an expression."

(***************************************************************************)
(* The round trip.                                                         *)
(***************************************************************************)
\* C15: for every input that scans without diagnostics, scanning the
\* lexemes of its tokens written out in order with whitespace between them
\* finishes and yields the same sequence of token kinds, String tokens
\* included.
C15_RoundTrip ==
    first_scan.taken =>
        /\ pc # "panicked"
        /\ pc = "done" =>
              KindsOf(returned.tokens) = KindsOf(first_scan.tokens)

(***************************************************************************)
(* Properties of the cursors.                                              *)
(***************************************************************************)
\* the 0-based index of the element after position c; the position before
\* the first element is UsizeMax
IndexAfter(c) == IF c = UsizeMax THEN 0 ELSE c + 1

\* the position stands on an element
OnElement(c) == c < Len(input)

\* C16: advance(offset) never wraps: from a position that stands on an
\* element it leaves the position no lower than it was, and an offset
\* that overshoots the last index returns None.
C16_AdvanceNeverWraps ==
    (last_call.op = "advance" /\ OnElement(last_call.prev)) =>
        /\ curr >= last_call.prev
        /\ last_call.arg >= Len(input) - last_call.prev =>
              last_call.ret = NoToken

\* the 0-based indices, after position c, of the elements a predicate accepts
MatchesAfter(c, types) ==
    {i \in IndexAfter(c)..(Len(input) - 1) : input[i + 1].token_type \in types}

\* the 0-based index of the element advance_until is to stop on
StopIndex(c, types) ==
    IF MatchesAfter(c, types) = {} THEN Len(input) - 1
    ELSE (CHOOSE i \in MatchesAfter(c, types) :
             \A j \in MatchesAfter(c, types) : i <= j) - 1

\* C17: advance_until(p), called on a fresh cursor or on an element, stops
\* just before the first following element that satisfies p, or on the
\* last element when none does, and returns exactly the elements it
\* consumed, in order.
C17_AdvanceUntil ==
    (/\ last_call.op = "advance_until"
     /\ last_call.prev = UsizeMax \/ OnElement(last_call.prev))
    => /\ IndexAfter(curr) = StopIndex(last_call.prev, last_call.arg) + 1
       /\ last_call.ret
              = [some |-> TRUE,
                 slice |-> SubSeq(input, IndexAfter(last_call.prev) + 1,
                                  IndexAfter(curr))]

\* C18: completed() is true exactly when peek(1) returns None, and once
\* true it stays true under further advance calls.
C18_Completed ==
    /\ Marcher_completed(curr) <=> (Marcher_peek(curr, 1) = NoToken)
    /\ (last_call.op = "advance" /\ Marcher_completed(last_call.prev))
          => Marcher_completed(curr)

\* C19: advance_if consumes at most one element and only on a match.  On
\* the token cursor: when the next element exists and the predicate
\* accepts it the position moves forward by one and that element is
\* returned, otherwise the position stays and None is returned.  On the
\* scanner: when the next byte is the expected one col moves forward by one
\* and true is returned, otherwise col stays and false is returned.
C19_AdvanceIf ==
    /\ last_call.op = "advance_if" =>
          IF /\ IndexAfter(last_call.prev) < Len(input)
             /\ input[IndexAfter(last_call.prev) + 1].token_type
                    \in last_call.arg
          THEN /\ curr = IndexAfter(last_call.prev)
               /\ last_call.ret = input[curr + 1]
          ELSE /\ curr = last_call.prev
               /\ last_call.ret = NoToken
    /\ last_call.op = "Scanner::advance_if" =>
          IF /\ last_call.prev < Len(source)
             /\ source[last_call.prev + 1] = last_call.arg
          THEN col = last_call.prev + 1 /\ last_call.ret = TRUE
          ELSE col = last_call.prev /\ last_call.ret = FALSE

\* the token cursor, standing on an element, has just consumed the next
\* one on a match
C19_Witness ==
    /\ last_call.op = "advance_if"
    /\ OnElement(last_call.prev)
    /\ curr = last_call.prev + 1
    /\ last_call.ret.token_type = "Plus"

(***************************************************************************)
(* Numbers and the '.' after them.                                         *)
(***************************************************************************)
\* the lexeme just scanned began with a digit: number scanned it
NumberScanned ==
    /\ start < col
    /\ start < Len(source)
    /\ is_digit(source[start + 1])

\* the literals of the tokens, with Dot for a Dot token
NumbersAndDots ==
    [i \in 1..Len(tokens) |->
        IF tokens[i].token_type = "Number" THEN tokens[i].literal.val
        ELSE tokens[i].token_type]

\* C20: a '.' after a digit run is taken into the number only if a digit
\* follows it; otherwise the number ends before the '.', which is scanned
\* as a Dot token of its own.  The text number consumed is digits and
\* '.'s, each '.' with a digit after it, and it ends before a '.' only
\* when no digit follows that '.'; 12.3 12..3 yields 12.3, 12, Dot, Dot, 3
\* and 12. yields 12, Dot.
C20_NumberDot ==
    /\ NumberScanned =>
          /\ \A i \in (start + 1)..col :
                /\ source[i] \in Digits \cup {"."}
                /\ source[i] = "." => (i < col /\ is_digit(source[i + 1]))
          /\ ~is_digit(Get(col))
          /\ Get(col) = "." => ~is_digit(Get(col + 1))
          /\ pc # "panicked" =>
                tokens[Len(tokens)].token_type = "Number"
    /\ (/\ start < col
        /\ source[start + 1] = "."
        /\ start > 0
        /\ is_digit(source[start]))
       => /\ col = start + 1
          /\ tokens[Len(tokens)].token_type = "Dot"
    /\ (pc = "done" /\ source = TestNumbers) =>
          NumbersAndDots
              = <<(<<"1", "2", ".", "3">>), (<<"1", "2">>), "Dot", "Dot",
                  (<<"3">>)>>
    /\ (pc = "done" /\ source = TwelveDot) =>
          NumbersAndDots = <<(<<"1", "2">>), "Dot">>

\* the scan of 12.3 12..3 has ended the second number before its '.' and
\* made a Dot of it
C20_Witness ==
    /\ source = TestNumbers
    /\ start = 7
    /\ col = 8
    /\ Len(tokens) = 3
    /\ tokens[2].literal.val = <<"1", "2">>
    /\ tokens[3].token_type = "Dot"

(***************************************************************************)
(* String literals.                                                        *)
(***************************************************************************)
\* the 1-based places of the quotes after the quote at offset i
QuotesAfter(i) == {j \in (i + 2)..Len(source) : source[j] = "\""}

\* the 1-based place of the quote that closes the string opened at offset i
ClosingQuote(i) ==
    CHOOSE j \in QuotesAfter(i) : \A k \in QuotesAfter(i) : j <= k

\* the scanner is about to scan a string literal that has a closing quote
AtClosedString ==
    /\ pc = "scanning"
    /\ col < Len(source)
    /\ source[col + 1] = "\""
    /\ QuotesAfter(col) # {}

NewlinesBetween(a, b) ==
    Cardinality({j \in (a + 1)..(b - 1) : source[j] = "\n"})

\* C21: scanning a string literal that has a closing quote appends exactly
\* one token, a String whose literal is the text strictly between the two
\* quotes, newlines included and empty for "", stops just past the closing
\* quote, records no diagnostic and raises the line counter by the number
\* of newlines inside the string.
C21_StringLiteral ==
    [][AtClosedString =>
          /\ pc' = "scanning"
          /\ col' = ClosingQuote(col)
          /\ Len(tokens') = Len(tokens) + 1
          /\ SubSeq(tokens', 1, Len(tokens)) = tokens
          /\ tokens'[Len(tokens')].token_type = "String"
          /\ tokens'[Len(tokens')].literal
                = [kind |-> "String",
                   val |-> SubSeq(source, col + 2, ClosingQuote(col) - 1)]
          /\ errors' = errors
          /\ line' = line + NewlinesBetween(col + 1, ClosingQuote(col))]_vars

\* the test's string of two lines has been scanned: its literal holds both
\* newlines and the line counter has grown by two
C21_Witness ==
    /\ source = TestStrings
    /\ Len(tokens) = 6
    /\ tokens[6].token_type = "String"
    /\ Len(tokens[6].literal.val) = 16
    /\ tokens[6].literal.val[5] = "\n"
    /\ tokens[6].literal.val[16] = "\n"
    /\ line = 3

(***************************************************************************)
(* Token positions.                                                        *)
(***************************************************************************)
\* C22: in the token sequence of a scan positions never decrease: a later
\* token's line is at least the earlier token's line and its col, a byte
\* offset, at least the earlier token's col; each token lies within the
\* text scanned so far.
C22_PositionsNeverDecrease ==
    /\ \A i \in 1..Len(tokens) : \A j \in i..Len(tokens) :
          /\ tokens[i].line <= tokens[j].line
          /\ tokens[i].col <= tokens[j].col
    /\ \A i \in 1..Len(tokens) :
          tokens[i].line <= line /\ tokens[i].col <= col

\* a scan has produced tokens on three lines, the later ones further on
C22_Witness ==
    /\ pc = "done"
    /\ source = TestStrings
    /\ Len(tokens) = 7
    /\ tokens[1].line = 1
    /\ tokens[6].line = 3
    /\ tokens[1].col < tokens[6].col
    /\ tokens[6].col < tokens[7].col

(***************************************************************************)
(* Punctuation.                                                            *)
(***************************************************************************)
\* the kind of each single-character punctuation
PunctuationKind ==
    ("(" :> "LeftParen") @@ (")" :> "RightParen") @@ ("{" :> "LeftBrace")
    @@ ("}" :> "RightBrace") @@ ("," :> "Comma") @@ ("." :> "Dot")
    @@ (";" :> "Semicolon") @@ ("-" :> "Minus") @@ ("+" :> "Plus")
    @@ ("*" :> "Star")

\* the kinds of ! = < > alone and with an = after them
AloneKind ==
    ("!" :> "Bang") @@ ("=" :> "Equal") @@ ("<" :> "Less")
    @@ (">" :> "Greater")

WithEqualKind ==
    ("!" :> "BangEqual") @@ ("=" :> "EqualEqual") @@ ("<" :> "LessEqual")
    @@ (">" :> "GreaterEqual")

Whitespace == {" ", "\t", "\r", "\n"}

\* the step appends one token of the kind, whose text is n characters long
AppendsOne(kind, n) ==
    /\ col' = col + n
    /\ Len(tokens') = Len(tokens) + 1
    /\ SubSeq(tokens', 1, Len(tokens)) = tokens
    /\ tokens'[Len(tokens')].token_type = kind
    /\ tokens'[Len(tokens')].lexeme = SubSeq(source, col + 1, col + n)
    /\ errors' = errors
    /\ line' = line
    /\ pc' = "scanning"

NextChar == IF pc = "scanning" /\ col < Len(source) THEN source[col + 1] ELSE None

\* C23: each of ( ) { } , . ; - + * yields exactly one token of its kind;
\* each of ! = < > yields its two-character kind and consumes both
\* characters exactly when an = comes right after it, and otherwise its
\* one-character kind and one character; whitespace yields no token; none
\* of them records a diagnostic.
C23_Punctuation ==
    [][/\ NextChar \in DOMAIN PunctuationKind =>
              AppendsOne(PunctuationKind[NextChar], 1)
       /\ NextChar \in DOMAIN AloneKind =>
              IF col + 1 < Len(source) /\ source[col + 2] = "="
              THEN AppendsOne(WithEqualKind[NextChar], 2)
              ELSE AppendsOne(AloneKind[NextChar], 1)
       /\ NextChar \in Whitespace =>
              /\ col' = col + 1
              /\ tokens' = tokens
              /\ errors' = errors
              /\ pc' = "scanning"]_vars

\* the test of the one- and two-character operators has been scanned
C23_Witness ==
    /\ pc = "done"
    /\ source = TestOperators
    /\ KindsOf(tokens)
           = <<"Bang", "GreaterEqual", "EqualEqual", "BangEqual", "Less",
               "LessEqual", "Greater">>
    /\ errors = <<>>

(***************************************************************************)
(* Prefix operators.                                                       *)
(***************************************************************************)
\* the number of ! and - tokens the input starts with
RECURSIVE PrefixLen(_)
PrefixLen(ts) ==
    IF ts # <<>> /\ Head(ts).token_type \in {"Bang", "Minus"}
    THEN 1 + PrefixLen(Tail(ts))
    ELSE 0

\* the operand at place n of the input under the prefix operators at
\* places i to n - 1, the first outermost
RECURSIVE Prefixed(_, _)
Prefixed(i, n) ==
    IF i = n THEN Number(n) ELSE Un(input[i], Prefixed(i + 1, n))

\* no prefix operator has a binary or conditional node as its operand
RECURSIVE PrefixBindsTightest(_)
PrefixBindsTightest(e) ==
    /\ e.node = "Un" => e.right.node \in {"Un", "Lit", "Grp"}
    /\ \A x \in Operands(e) : PrefixBindsTightest(x)

\* C24: prefix operators are right-recursive and bind tighter than every
\* binary operator: n ! or - tokens before a number parse to n nested
\* Unary nodes in source order, a binary operator after the number takes
\* the whole nest as its left operand (-1 * 2 is (* (- 1) 2)), and in no
\* tree is the operand of a prefix operator a binary node.
C24_PrefixOperators ==
    /\ parse_pc = "returned" => PrefixBindsTightest(expr)
    /\ (/\ parse_pc # "ready"
        /\ Len(input) = PrefixLen(input) + 1
        /\ input[Len(input)].token_type = "Number")
       => expr = Prefixed(1, Len(input))
    /\ (/\ parse_pc # "ready"
        /\ Len(input) = PrefixLen(input) + 3
        /\ input[Len(input) - 2].token_type = "Number"
        /\ input[Len(input) - 1].token_type \in BinaryOps
        /\ input[Len(input)].token_type = "Number")
       => expr = Bin(Prefixed(1, Len(input) - 2), input[Len(input) - 1],
                     Number(Len(input)))

\* -1 * 2 has been parsed to a product whose left operand is the negation
C24_Witness ==
    /\ parse_pc = "returned"
    /\ KindsOf(input) = <<"Minus", "Number", "Star", "Number">>
    /\ expr.node = "Bin"
    /\ expr.left = Un(input[1], Number(2))

(***************************************************************************)
(* The rendering of a tree.                                                *)
(***************************************************************************)
\* the tree is made of Binary and Grouping nodes, nil and Number literals
RECURSIVE PlainTree(_)
PlainTree(e) ==
    /\ e.node \in {"Bin", "Grp", "Lit"}
    /\ e.node = "Lit" => e.value.type \in {"None", "Option<f64>"}
    /\ \A x \in Operands(e) : PlainTree(x)

\* the fully parenthesised prefix form of such a tree
RECURSIVE PrefixForm(_)
PrefixForm(e) ==
    CASE e.node = "Bin" ->
            <<"(">> \o KindLexeme(e.operator.token_type) \o <<" ">>
                \o PrefixForm(e.left) \o <<" ">> \o PrefixForm(e.right)
                \o <<")">>
      [] e.node = "Grp" ->
            <<"(", "g", "r", "p", " ">> \o PrefixForm(e.expression)
                \o <<")">>
      [] e.node = "Lit" ->
            IF e.value.type = "None" THEN <<"n", "i", "l">> ELSE e.value.val

\* C25: a tree renders as its fully parenthesised prefix form: a Binary as
\* (op left right), a Grouping as (grp inner), nil as nil and a Number as
\* its plain numeric text, so the tree of 1 + 2 renders as (+ 1 2).
C25_Rendering ==
    (printed # <<>> /\ PlainTree(expr)) => printed = PrefixForm(expr)

(***************************************************************************)
(* Progress of the scan.                                                   *)
(***************************************************************************)
\* C26: every iteration of the scanner's main loop consumes at least one
\* character and appends at most one token, and the scan of an input
\* stops only with the offset at or beyond the input's length and with no
\* more tokens than the input has characters.
C26_ProgressAndTermination ==
    /\ [][(pc = "scanning" /\ col < Len(source)) =>
              /\ col' > col
              /\ Len(tokens') <= Len(tokens) + 1]_vars
    /\ [](pc \in {"done", "panicked"} =>
              /\ col >= Len(source)
              /\ Len(tokens) <= Len(source))

(***************************************************************************)
(* Trailing tokens and what follows an unterminated string.                *)
(***************************************************************************)
\* C27: whenever parse returns a tree the cursor has consumed every token
\* of the input: no trailing token is left unread.
C27_NoTrailingTokens ==
    parse_pc = "returned" => Len(ConsumedPrefix) = Len(input)

\* C28: once "Unterminated string." is recorded the scan is finished with
\* that string, which runs to the end of the input: no diagnostic follows
\* it, no token lies beyond the place it was recorded at and the line
\* counter stays as it was when it was recorded.
C28_UnterminatedStringIsFinished ==
    \A k \in 1..Len(errors) :
        errors[k].message = "Unterminated string." =>
            /\ Len(errors) = k
            /\ \A i \in 1..Len(tokens) : tokens[i].col <= errors[k].col
            /\ line = errors[k].line

=============================================================================
